---- MODULE Spec2Model ----
(***************************************************************************)
(* The upload / delete / download pipeline of chat-media-bucket:           *)
(* src/routes/files.js (router), middleware/validation.js,                 *)
(* middleware/errorHandler.js, config/environment.js and index.js.         *)
(*                                                                         *)
(* Text that the code inspects character by character (header values,     *)
(* file names, request paths) is a sequence of one-character strings;     *)
(* text that the code only compares as a whole (MIME types, field names,  *)
(* error titles) is a TLA+ string.  A value that may be undefined in      *)
(* JavaScript is a record [present, value].                               *)
(*                                                                         *)
(* uuidv4() is modelled as a generator of identifiers never handed out    *)
(* before ("u1", "u2", ...): a collision of two 122-bit random values is  *)
(* not a behaviour of this model.                                          *)
(***************************************************************************)
EXTENDS Naturals, Sequences, FiniteSets, TLC

VARIABLES
    authToken,   \* environment.authToken, read once at start-up
    rootExists,  \* the storage root directory exists on disk
    files,       \* the regular files inside the storage root: name -> [data, size]
    outside,     \* regular files that sit next to the storage root (one level up)
    nextUuid,    \* how many identifiers uuidv4() has handed out
    live,        \* ghost: name -> payload of each upload answered 200 and not deleted since
    deleted,     \* ghost: names whose DELETE answered 200 and that were not stored again
    everStored,  \* ghost: every name a file was ever written under
    last,        \* the last request served, with its response
    inflight     \* client -> its request under way and, once answered, the status

vars ==
    <<authToken, rootExists, files, outside, nextUuid, live, deleted, everStored, last,
      inflight>>

----------------------------------------------------------------------------
(* Bounds of the model *)

\* uploads that reach storage.filename in one behaviour
MaxUploads == 2

----------------------------------------------------------------------------
(* JavaScript values *)

Undefined == [present |-> FALSE, value |-> <<>>]

Str(s) == [present |-> TRUE, value |-> s]

\* `!v` is false: v is neither undefined nor the empty string
Truthy(v) == v.present /\ v.value # <<>>

\* `${v}` in a template literal
TemplateString(v) ==
    IF v.present THEN v.value ELSE <<"u", "n", "d", "e", "f", "i", "n", "e", "d">>

\* String.prototype.trim, over the white space of the model's alphabet
RECURSIVE TrimStart(_)
TrimStart(s) == IF s # <<>> /\ Head(s) = " " THEN TrimStart(Tail(s)) ELSE s

RECURSIVE TrimEnd(_)
TrimEnd(s) ==
    IF s # <<>> /\ s[Len(s)] = " " THEN TrimEnd(SubSeq(s, 1, Len(s) - 1)) ELSE s

Trim(s) == TrimEnd(TrimStart(s))

----------------------------------------------------------------------------
(* Configuration: config/environment.js *)

\* environment.baseUrl
BASE_URL == <<"h", ":", "3">>

Secret == <<"s", "3">>

\* process.env.AUTH_TOKEN is set, or is not
AuthTokens == {Undefined, Str(Secret)}

----------------------------------------------------------------------------
(* path.extname, path.join *)

LastDot(s) ==
    IF \E i \in 1..Len(s) : s[i] = "."
    THEN CHOOSE i \in 1..Len(s) :
            s[i] = "." /\ \A j \in (i + 1)..Len(s) : s[j] # "."
    ELSE 0

\* the extension without its dot, as a split of the name at its last dot gives it
extnameWithoutDot(s) ==
    IF LastDot(s) <= 1 THEN <<>> ELSE SubSeq(s, LastDot(s) + 1, Len(s))

\* path.extname of a name without separators: from the last dot to the end; empty
\* when there is no dot, when the only dot leads the name, and for ".."
extname(s) ==
    LET d == LastDot(s)
    IN  IF d = 0 \/ d = 1 \/ s = <<".", ".">> THEN <<>> ELSE SubSeq(s, d, Len(s))

FirstSlash(s) ==
    IF \E i \in 1..Len(s) : s[i] = "/"
    THEN CHOOSE i \in 1..Len(s) : s[i] = "/" /\ \A j \in 1..(i - 1) : s[j] # "/"
    ELSE 0

\* (the operators below that take a string apart bind their argument once, as
\* s \in {str}, so that it is computed once however often it is looked at)
RECURSIVE Segments(_)
Segments(str) ==
    CHOOSE r \in
        {IF i = 0 THEN <<s>>
         ELSE <<SubSeq(s, 1, i - 1)>> \o Segments(SubSeq(s, i + 1, Len(s))) :
            <<s, i>> \in {<<str, FirstSlash(str)>>}} : TRUE

RECURSIVE Normalize(_, _, _)
Normalize(segs, up, stack) ==
    IF segs = <<>> THEN [up |-> up, segs |-> stack]
    ELSE LET h == Head(segs)
             t == Tail(segs)
         IN  IF h = <<>> \/ h = <<".">> THEN Normalize(t, up, stack)
             ELSE IF h = <<".", ".">>
                  THEN IF stack # <<>>
                       THEN Normalize(t, up, SubSeq(stack, 1, Len(stack) - 1))
                       ELSE Normalize(t, up + 1, stack)
                  ELSE Normalize(t, up, Append(stack, h))

\* path.join(__dirname, '..', VOLUME_PATH, name): where the joined, normalized path
\* lies relative to the storage root (up levels above it, then down segs)
pathJoin(name) ==
    CHOOSE r \in {Normalize(segs, 0, <<>>) : segs \in {Segments(name)}} : TRUE

----------------------------------------------------------------------------
(* The file system under and around the storage root *)

IsRegularFile(loc) ==
    \/ loc.up = 0 /\ Len(loc.segs) = 1 /\ loc.segs[1] \in DOMAIN files
    \/ loc.up = 1 /\ Len(loc.segs) = 1 /\ loc.segs[1] \in outside

\* the storage root itself, or one of its ancestors
IsDirectory(loc) ==
    /\ loc.segs = <<>>
    /\ (loc.up = 0 => rootExists)

\* a check that finds every path
existsSyncAlways(loc) == TRUE

\* fs.existsSync
existsSync(loc) == IsRegularFile(loc) \/ IsDirectory(loc)

\* fs.statSync(path).size of a regular file
statSize(loc) ==
    IF loc.up = 0 /\ Len(loc.segs) = 1 /\ loc.segs[1] \in DOMAIN files
    THEN files[loc.segs[1]].size
    ELSE 0

----------------------------------------------------------------------------
(* Requests *)

\* what a response looks like before a request has been served; every field a
\* handler does not set keeps the value it has here
NoRequest ==
    [route |-> "none",
     hdr |-> Undefined,            \* req.headers['authorization']
     parts |-> <<>>,               \* the file parts of the multipart body, in order
     query |-> [kind |-> "absent", value |-> <<>>],  \* req.query.filename
     fault |-> "none",             \* what the OS answers to stat/unlink
     name |-> <<>>,                \* delete: req.filename; download: the name asked for
     authPassed |-> FALSE,         \* authenticate called next()
     validated |-> FALSE,          \* the validator called next()
     handlerRan |-> FALSE,         \* the route's handler ran
     status |-> 0,
     error |-> "",
     message |-> "",
     writer |-> "",                \* the stage that wrote the response
     json |-> FALSE,               \* the body is a JSON object
     keys |-> {},                  \* the fields of the JSON body
     disposition |-> Undefined,    \* the Content-Disposition header of the response
     log |-> <<>>,                 \* the entries logger wrote for the request
     filename |-> <<>>,
     filePath |-> <<>>,
     originalname |-> <<>>,
     size |-> 0,
     mimetype |-> "",
     data |-> "",                  \* download: the bytes of the body
     length |-> 0,                 \* download: Content-Length
     pre |-> <<>>,                 \* ghost: `files` when the request arrived
     preOutside |-> {},            \* ghost: `outside` when the request arrived
     wasDeleted |-> FALSE,         \* ghost: name was in `deleted` when the request arrived
     wasEverStored |-> FALSE]      \* ghost: name was in `everStored` when it arrived

Reply(status, error, message, writer) ==
    [status |-> status, error |-> error, message |-> message, writer |-> writer]

\* one call of logger.warn / logger.error / logger.info; stack: the entry's fields
\* hold err.stack
LogEntry(level, message, stack) ==
    [level |-> level, message |-> message, stack |-> stack]

----------------------------------------------------------------------------
(* routes/files.js: authenticate *)

BearerPrefix == <<"B", "e", "a", "r", "e", "r", " ">>

\* the string the header is compared with: `Bearer ${environment.authToken}`
ExpectedHeader == BearerPrefix \o TemplateString(authToken)

\* a pipeline without the authenticator: every request is passed on
authenticateNone(hdr) == [pass |-> TRUE, reply |-> Reply(0, "", "", ""), log |-> <<>>]

authenticate(hdr) ==
    IF ~Truthy(hdr)
    THEN [pass |-> FALSE,
          reply |-> Reply(401, "Missing authorization",
                          "Authorization header is required", "authenticate"),
          log |-> <<LogEntry("warn", "Missing authorization header", FALSE)>>]
    ELSE IF hdr.value # ExpectedHeader
    THEN [pass |-> FALSE,
          reply |-> Reply(401, "Invalid token",
                          "Invalid authorization token", "authenticate"),
          log |-> <<LogEntry("warn", "Invalid authorization token", FALSE)>>]
    ELSE [pass |-> TRUE, reply |-> Reply(0, "", "", ""), log |-> <<>>]

----------------------------------------------------------------------------
(* middleware/errorHandler.js *)

\* an Error object, as far as errorHandler looks at it
Err(isMulter, code, name, message) ==
    [raised |-> TRUE, isMulter |-> isMulter, code |-> code, name |-> name,
     message |-> message]

NoErr == [raised |-> FALSE, isMulter |-> FALSE, code |-> "", name |-> "", message |-> ""]

MulterError(code, message) == Err(TRUE, code, "MulterError", message)

\* errorHandler's first statement: logger.error with err.message and err.stack
errorHandlerLog(err) == <<LogEntry("error", "Unhandled error occurred", TRUE)>>

\* a responder without the MulterError branch: every error it does not know by name
\* or code is answered 500
errorHandlerWithoutMulter(err) ==
    IF err.name = "ValidationError"
    THEN Reply(400, "Validation error", err.message, "errorHandler")
    ELSE IF err.code = "ENOENT"
    THEN Reply(404, "File not found", "The requested file does not exist", "errorHandler")
    ELSE IF err.code = "EACCES"
    THEN Reply(403, "Permission denied", "Access to the file is denied", "errorHandler")
    ELSE Reply(500, "Internal server error", "An unexpected error occurred",
               "errorHandler")

errorHandler(err) ==
    IF err.isMulter
    THEN IF err.code = "LIMIT_FILE_SIZE"
         THEN Reply(413, "File too large",
                    "The uploaded file exceeds the maximum allowed size", "errorHandler")
         ELSE IF err.code = "LIMIT_FILE_COUNT"
         THEN Reply(413, "Too many files",
                    "Only one file is allowed per request", "errorHandler")
         ELSE IF err.code = "LIMIT_UNEXPECTED_FILE"
         THEN Reply(400, "Invalid field name",
                    "File must be uploaded with field name \"file\"", "errorHandler")
         ELSE Reply(400, "Upload error", err.message, "errorHandler")
    ELSE IF err.name = "ValidationError"
    THEN Reply(400, "Validation error", err.message, "errorHandler")
    ELSE IF err.code = "ENOENT"
    THEN Reply(404, "File not found", "The requested file does not exist", "errorHandler")
    ELSE IF err.code = "EACCES"
    THEN Reply(403, "Permission denied", "Access to the file is denied", "errorHandler")
    ELSE Reply(500, "Internal server error", "An unexpected error occurred",
               "errorHandler")

----------------------------------------------------------------------------
(* middleware/validation.js *)

allowedMimeTypes ==
    {"image/jpeg", "image/png", "image/gif", "image/webp", "application/pdf",
     "text/plain", "application/json", "text/csv", "application/vnd.ms-excel",
     "application/vnd.openxmlformats-officedocument.spreadsheetml.sheet"}

\* a validator that hands req.query.filename on as it came, without the trim
validateFilenameUntrimmed(q) ==
    IF q.kind = "absent" \/ (q.kind = "string" /\ q.value = <<>>)
    THEN [pass |-> FALSE, filename |-> <<>>,
          reply |-> Reply(400, "Missing required parameter", "filename is required",
                          "validateFilename"),
          log |-> <<LogEntry("warn", "Missing filename in request", FALSE)>>]
    ELSE IF q.kind # "string" \/ Len(Trim(q.value)) = 0
    THEN [pass |-> FALSE, filename |-> <<>>,
          reply |-> Reply(400, "Invalid parameter",
                          "filename must be a non-empty string", "validateFilename"),
          log |-> <<LogEntry("warn", "Invalid filename format", FALSE)>>]
    ELSE [pass |-> TRUE, filename |-> q.value, reply |-> Reply(0, "", "", ""),
          log |-> <<>>]

\* a validator that returns on a missing filename without a response and without
\* next()
validateFilenameSilent(q) ==
    IF q.kind = "absent" \/ (q.kind = "string" /\ q.value = <<>>)
    THEN [pass |-> FALSE, filename |-> <<>>, reply |-> Reply(0, "", "", ""),
          log |-> <<LogEntry("warn", "Missing filename in request", FALSE)>>]
    ELSE IF q.kind # "string" \/ Len(Trim(q.value)) = 0
    THEN [pass |-> FALSE, filename |-> <<>>,
          reply |-> Reply(400, "Invalid parameter",
                          "filename must be a non-empty string", "validateFilename"),
          log |-> <<LogEntry("warn", "Invalid filename format", FALSE)>>]
    ELSE [pass |-> TRUE, filename |-> Trim(q.value), reply |-> Reply(0, "", "", ""),
          log |-> <<>>]

\* req.query.filename: absent, a string, or (a repeated parameter) an array
validateFilename(q) ==
    IF q.kind = "absent" \/ (q.kind = "string" /\ q.value = <<>>)
    THEN [pass |-> FALSE, filename |-> <<>>,
          reply |-> Reply(400, "Missing required parameter", "filename is required",
                          "validateFilename"),
          log |-> <<LogEntry("warn", "Missing filename in request", FALSE)>>]
    ELSE IF q.kind # "string" \/ Len(Trim(q.value)) = 0
    THEN [pass |-> FALSE, filename |-> <<>>,
          reply |-> Reply(400, "Invalid parameter",
                          "filename must be a non-empty string", "validateFilename"),
          log |-> <<LogEntry("warn", "Invalid filename format", FALSE)>>]
    ELSE [pass |-> TRUE, filename |-> Trim(q.value), reply |-> Reply(0, "", "", ""),
          log |-> <<>>]

\* a validator that looks at the type of req.file only
validateFileUploadTypeOnly(m) ==
    IF m.hasFile /\ m.file.mimetype \notin allowedMimeTypes
    THEN [pass |-> FALSE,
          reply |-> Reply(400, "Unsupported file type",
                          "The uploaded file type is not supported",
                          "validateFileUpload"),
          log |-> <<LogEntry("warn", "Unsupported file type uploaded", FALSE)>>]
    ELSE [pass |-> TRUE, reply |-> Reply(0, "", "", ""), log |-> <<>>]

\* m: what upload.single('file') left in req (hasFile: req.file is set)
validateFileUpload(m) ==
    IF ~m.hasFile
    THEN [pass |-> FALSE,
          reply |-> Reply(400, "No file uploaded", "Please select a file to upload",
                          "validateFileUpload"),
          log |-> <<LogEntry("warn", "No file uploaded", FALSE)>>]
    ELSE IF m.file.mimetype \notin allowedMimeTypes
    THEN [pass |-> FALSE,
          reply |-> Reply(400, "Unsupported file type",
                          "The uploaded file type is not supported",
                          "validateFileUpload"),
          log |-> <<LogEntry("warn", "Unsupported file type uploaded", FALSE)>>]
    ELSE [pass |-> TRUE, reply |-> Reply(0, "", "", ""), log |-> <<>>]

----------------------------------------------------------------------------
(* routes/files.js: storage, upload (multer) *)

\* limits.fileSize: 10 * 1024 * 1024
MaxFileSize == 10485760

\* limits.files
MaxFiles == 1

\* uuidv4(): the n-th identifier handed out
uuidv4(n) == <<"u", ToString(n)>>

\* storage.filename: `${uuidv4()}${ext}`
storageFilename(n, originalname) == uuidv4(n) \o extname(originalname)

\* upload's fileFilter: the error it hands to its callback
fileFilter(file) ==
    IF file.mimetype \notin allowedMimeTypes
    THEN Err(FALSE, "", "Error", "Unsupported file type")
    ELSE NoErr

NoFile ==
    [fieldname |-> "", originalname |-> <<>>, mimetype |-> "", filename |-> <<>>,
     data |-> "", size |-> 0]

\* upload.single('file') over the file parts of the body, in the order busboy
\* emits them.  The first error aborts the request; a file already written for it
\* is removed again.  stored: storage.destination and storage.filename ran (the
\* root directory was created, an identifier was used); kept: the file stays;
\* log: what fileFilter and storage.filename logged.
uploadSingle(parts, n) ==
    IF parts = <<>>
    THEN [err |-> NoErr, hasFile |-> FALSE, file |-> NoFile, stored |-> FALSE,
          kept |-> FALSE, log |-> <<>>]
    ELSE LET p == parts[1]
             f == [fieldname |-> p.fieldname, originalname |-> p.originalname,
                   mimetype |-> p.mimetype,
                   filename |-> storageFilename(n, p.originalname),
                   data |-> p.data, size |-> p.size]
         IN  IF p.fieldname # "file"
             THEN [err |-> MulterError("LIMIT_UNEXPECTED_FILE", "Unexpected field"),
                   hasFile |-> FALSE, file |-> NoFile, stored |-> FALSE, kept |-> FALSE,
                   log |-> <<>>]
             ELSE IF fileFilter(p).raised
             THEN [err |-> fileFilter(p), hasFile |-> FALSE, file |-> NoFile,
                   stored |-> FALSE, kept |-> FALSE,
                   log |-> <<LogEntry("warn", "File type rejected", FALSE)>>]
             ELSE IF p.size > MaxFileSize
             THEN [err |-> MulterError("LIMIT_FILE_SIZE", "File too large"),
                   hasFile |-> FALSE, file |-> NoFile, stored |-> TRUE, kept |-> FALSE,
                   log |-> <<LogEntry("info", "Generated filename", FALSE)>>]
             ELSE IF Len(parts) > MaxFiles
             THEN [err |-> MulterError("LIMIT_FILE_COUNT", "Too many files"),
                   hasFile |-> FALSE, file |-> NoFile, stored |-> TRUE, kept |-> FALSE,
                   log |-> <<LogEntry("info", "Generated filename", FALSE)>>]
             ELSE [err |-> NoErr, hasFile |-> TRUE, file |-> f, stored |-> TRUE,
                   kept |-> TRUE,
                   log |-> <<LogEntry("info", "Generated filename", FALSE)>>]

\* the upload route's handler: the 200 body
uploadHandler(file) ==
    [filePath |-> BASE_URL \o <<"/", "f", "i", "l", "e", "s", "/">> \o file.filename,
     filename |-> file.filename,
     originalname |-> file.originalname,
     size |-> file.size,
     mimetype |-> file.mimetype]

----------------------------------------------------------------------------
(* The request target of a download *)

\* the request path a client sends for a file name: characters that may not
\* stand in a URL path as they are arrive percent-encoded in req.path
RECURSIVE PercentEncode(_)
PercentEncode(s) ==
    IF s = <<>> THEN <<>>
    ELSE (IF Head(s) = " " THEN <<"%", "2", "0">>
          ELSE IF Head(s) = "%" THEN <<"%", "2", "5">>
          ELSE <<Head(s)>>) \o PercentEncode(Tail(s))

\* the decoding express.static applies to the path before it opens the file
RECURSIVE PercentDecode(_)
PercentDecode(str) ==
    CHOOSE r \in
        {IF s = <<>> THEN <<>>
         ELSE IF Len(s) >= 3 /\ SubSeq(s, 1, 3) = <<"%", "2", "0">>
         THEN <<" ">> \o PercentDecode(SubSeq(s, 4, Len(s)))
         ELSE IF Len(s) >= 3 /\ SubSeq(s, 1, 3) = <<"%", "2", "5">>
         THEN <<"%">> \o PercentDecode(SubSeq(s, 4, Len(s)))
         ELSE <<Head(s)>> \o PercentDecode(Tail(s)) : s \in {str}} : TRUE

\* express.static(root) for a decoded path: the file it streams, if any.  It is
\* given no setHeaders option, so the response has the headers send sets by
\* itself, and Content-Disposition is not among them.
serveStatic(path) ==
    CHOOSE r \in {
        IF loc.up = 0 /\ Len(loc.segs) = 1 /\ loc.segs[1] \in DOMAIN files
        THEN [found |-> TRUE, data |-> files[loc.segs[1]].data,
              length |-> files[loc.segs[1]].size, disposition |-> Undefined]
        ELSE [found |-> FALSE, data |-> "", length |-> 0, disposition |-> Undefined] :
        loc \in {pathJoin(path)}} : TRUE

----------------------------------------------------------------------------
(* Maps from names *)

EmptyMap == [x \in {} |-> x]

Put(f, k, v) == [x \in DOMAIN f \cup {k} |-> IF x = k THEN v ELSE f[x]]

\* a removal that empties the directory
RemoveAll(f, k) == [x \in {} |-> x]

Remove(f, k) == [x \in DOMAIN f \ {k} |-> f[x]]

----------------------------------------------------------------------------
(* What clients send *)

Headers ==
    {Undefined,
     Str(<<>>),
     Str(BearerPrefix \o Secret),
     Str(<<"b", "e", "a", "r", "e", "r", " ">> \o Secret),
     Str(BearerPrefix \o <<" ">> \o Secret),
     Str(BearerPrefix \o TemplateString(Undefined))}

OriginalNames == {<<"p">>, <<"p", ".", "J">>, <<"p", ".", " ", "j">>, <<".", "p">>}

MimeTypes == {"image/png", "application/x-msdownload"}

FieldNames == {"file", "doc"}

Payloads ==
    {[data |-> "d1", size |-> 3],
     [data |-> "d2", size |-> MaxFileSize],
     [data |-> "d3", size |-> MaxFileSize + 1]}

FilePart(fieldname, originalname, mimetype, payload) ==
    [fieldname |-> fieldname, originalname |-> originalname, mimetype |-> mimetype,
     data |-> payload.data, size |-> payload.size]

\* every original name with an accepted type and size; every combination of
\* field name, type and size (small or over the limit) with one original name;
\* one file of exactly the size limit
FirstParts ==
    {FilePart("file", o, "image/png", [data |-> "d1", size |-> 3]) :
        o \in OriginalNames}
    \cup {FilePart(f, <<"p", ".", "J">>, t, b) :
            f \in FieldNames, t \in MimeTypes,
            b \in {x \in Payloads : x.size # MaxFileSize}}
    \cup {FilePart("file", <<"p">>, "image/png", b) :
            b \in {x \in Payloads : x.size = MaxFileSize}}

SecondParts == {FilePart("file", <<"p">>, "image/png", [data |-> "d1", size |-> 3])}

\* a second file part is looked at only to be counted
Bodies ==
    {<<>>} \cup {<<p>> : p \in FirstParts}
           \cup {<<p, q>> : p \in {x \in FirstParts : /\ x.originalname = <<"p", ".", "J">>
                                                     /\ x.fieldname = "file"},
                            q \in SecondParts}

\* the body sent along with every header value
SomeBodies ==
    {<<FilePart("file", <<"p", ".", "J">>, "image/png", [data |-> "d1", size |-> 3])>>}

Faults == {"none", "EACCES", "EIO"}

\* the values of ?filename= that clients send: names they were given by an upload,
\* as they are and (those without extension) padded with blanks, and names they
\* make up
Queries ==
    {[kind |-> "absent", value |-> <<>>], [kind |-> "array", value |-> <<>>]}
    \cup {[kind |-> "string", value |-> s] :
            s \in {<<>>, <<" ">>, <<"n">>, <<" ", "n", " ">>, <<".">>,
                        <<".", ".">>, <<".", ".", "/", "i">>}
                  \cup everStored
                  \cup {<<" ">> \o x \o <<" ">> : x \in {y \in everStored : Len(y) = 2}}}

\* the values of ?filename= sent along with a header value: a name with every
\* one, and no filename with the missing header
SomeQueries(hdr) ==
    {[kind |-> "string", value |-> <<"n">>]}
    \cup (IF hdr.present THEN {} ELSE {[kind |-> "absent", value |-> <<>>]})

\* the names clients ask GET /files/ for (the empty one: GET /files/ itself)
NamesAsked == everStored \cup {<<"n">>, <<>>}

----------------------------------------------------------------------------
(* The routes *)

\* res.status(..).json({error, message})
Answer(req, reply) ==
    [req EXCEPT !.status = reply.status, !.error = reply.error,
                !.message = reply.message, !.writer = reply.writer, !.json = TRUE,
                !.keys = {"error", "message"}]

\* the response together with what the stages logged on the way to it
Logged(res, entries) == [res EXCEPT !.log = entries]

\* the clients that have requests under way at the same time
Clients == {"a", "b"}

\* a client's request on its way: sent and not yet taken up by the server
\* (pc "sent"), waiting for an asynchronous operation the server started for it
\* (a download: "statting", "opening", "streaming"), or answered (pc "answered", with the
\* response).  storedWhenSent, peers: ghosts, the name was stored when the request
\* was sent, and the clients whose request for the same name was under way at
\* that time; expected: ghost, the file the download route's existence check
\* found; raced: ghost, a DELETE removed that file after the check; ran: ghost,
\* the stages that ran for the request, in order; responses: ghost, how many
\* times a stage wrote a response; late: ghost, a stage ran after a response
NotSent ==
    [pc |-> "idle", route |-> "none", hdr |-> Undefined, parts |-> <<>>,
     query |-> [kind |-> "absent", value |-> <<>>],
     ran |-> <<>>, responses |-> 0, late |-> FALSE,
     status |-> 0, writer |-> "", json |-> FALSE, keys |-> {},
     data |-> "", length |-> 0,
     storedWhenSent |-> FALSE, peers |-> {},
     expected |-> [data |-> "", size |-> 0], raced |-> FALSE]

Init ==
    /\ authToken \in AuthTokens
    /\ rootExists = FALSE
    /\ files = EmptyMap
    /\ outside = {<<"i">>}
    /\ nextUuid = 0
    /\ live = EmptyMap
    /\ deleted = {}
    /\ everStored = {}
    /\ last = [NoRequest EXCEPT !.pre = EmptyMap]
    /\ inflight = [c \in Clients |-> NotSent]

\* router.post('/upload', authenticate, upload.single('file'), validateFileUpload,
\*             handler), with app.use(errorHandler) behind it
Upload(hdr, parts) ==
    /\ nextUuid < MaxUploads
    /\ \E a \in {authenticate(hdr)}, m \in {uploadSingle(parts, nextUuid + 1)} :
       \E v \in {validateFileUpload(m)} :
       LET req == [NoRequest EXCEPT !.route = "upload", !.hdr = hdr, !.parts = parts,
                                    !.pre = files, !.preOutside = outside]
           in == [req EXCEPT !.authPassed = TRUE]
           name == m.file.filename
           payload == [data |-> m.file.data, size |-> m.file.size]
           body == uploadHandler(m.file)
       IN  /\ rootExists' = (rootExists \/ (a.pass /\ m.stored))
           /\ nextUuid' = IF a.pass /\ m.stored THEN nextUuid + 1 ELSE nextUuid
           /\ files' = IF a.pass /\ m.kept THEN Put(files, name, payload) ELSE files
           /\ everStored' = IF a.pass /\ m.kept THEN everStored \cup {name}
                            ELSE everStored
           /\ deleted' = IF a.pass /\ m.kept THEN deleted \ {name} ELSE deleted
           /\ live' = IF a.pass /\ m.kept /\ v.pass
                      THEN Put(live, body.filename,
                               [data |-> parts[1].data, size |-> parts[1].size])
                      ELSE live
           /\ last' =
                IF ~a.pass THEN Logged(Answer(req, a.reply), a.log)
                ELSE IF m.err.raised
                THEN Logged(Answer(in, errorHandler(m.err)),
                            m.log \o errorHandlerLog(m.err))
                ELSE IF ~v.pass THEN Logged(Answer(in, v.reply), m.log \o v.log)
                ELSE [in EXCEPT !.validated = TRUE, !.handlerRan = TRUE,
                                !.status = 200, !.writer = "uploadHandler",
                                !.json = TRUE,
                                !.keys = {"filePath", "filename", "originalname",
                                          "size", "mimetype"},
                                !.log = m.log \o <<LogEntry("info",
                                            "File uploaded successfully", FALSE)>>,
                                !.filePath = body.filePath,
                                !.filename = body.filename,
                                !.originalname = body.originalname,
                                !.size = body.size,
                                !.mimetype = body.mimetype]
    /\ UNCHANGED <<authToken, outside>>

\* a catch that does not look at error.code
deleteCatchAlways500(code) ==
    Reply(500, "Delete failed", "An error occurred while deleting the file",
          "deleteHandler")

\* a catch that hands the error on with next(error) instead of answering
deleteCatchRethrow(code) == errorHandler(Err(FALSE, code, "Error", ""))

\* the delete handler's catch: the response for an error that statSync or
\* unlinkSync threw, by its code
deleteCatch(code) ==
    IF code = "EACCES"
    THEN Reply(403, "Permission denied", "Access to the file is denied",
               "deleteHandler")
    ELSE Reply(500, "Delete failed", "An error occurred while deleting the file",
               "deleteHandler")

\* the catch's logger.error, with error.message and the file name
deleteCatchLog == <<LogEntry("error", "Error deleting file", FALSE)>>

\* router.delete('/delete', authenticate, validateFilename, handler)
Delete(hdr, q, fault) ==
    \E a \in {authenticate(hdr)}, v \in {validateFilename(q)} :
    \E loc \in {pathJoin(v.filename)} :
        LET req == [NoRequest EXCEPT !.route = "delete", !.hdr = hdr, !.query = q,
                                     !.fault = fault, !.pre = files,
                                     !.preOutside = outside]
            in == [req EXCEPT !.authPassed = TRUE]
            run == [in EXCEPT !.validated = TRUE, !.handlerRan = TRUE,
                              !.name = v.filename,
                              !.wasDeleted = (v.filename \in deleted),
                              !.wasEverStored = (v.filename \in everStored)]
            reached == a.pass /\ v.pass
            removes == reached /\ IsRegularFile(loc) /\ fault = "none"
        IN  \* the OS fails a stat or an unlink only when one is made
            /\ (fault # "none") => (reached /\ IsRegularFile(loc))
            /\ files' = IF removes /\ loc.up = 0 THEN Remove(files, loc.segs[1])
                        ELSE files
            /\ live' = IF removes /\ loc.up = 0 /\ loc.segs[1] \in DOMAIN live
                       THEN Remove(live, loc.segs[1]) ELSE live
            /\ deleted' = IF removes /\ loc.up = 0 THEN deleted \cup {loc.segs[1]}
                          ELSE deleted
            /\ outside' = IF removes /\ loc.up = 1 THEN outside \ {loc.segs[1]}
                          ELSE outside
            /\ last' =
                 IF ~a.pass THEN Logged(Answer(req, a.reply), a.log)
                 ELSE IF ~v.pass THEN Logged(Answer(in, v.reply), v.log)
                 ELSE IF ~existsSync(loc)
                 THEN Logged(Answer(run, Reply(404, "File not found",
                                               "The specified file does not exist",
                                               "deleteHandler")),
                             <<LogEntry("warn", "File not found for deletion", FALSE)>>)
                 ELSE IF IsDirectory(loc)
                 \* unlinkSync of a directory throws EISDIR (EPERM on some systems)
                 THEN Logged(Answer(run, deleteCatch("EISDIR")), deleteCatchLog)
                 ELSE IF fault # "none"
                 THEN Logged(Answer(run, deleteCatch(fault)), deleteCatchLog)
                 ELSE [run EXCEPT !.status = 200, !.writer = "deleteHandler",
                                  !.json = TRUE,
                                  !.keys = {"message", "filename", "size"},
                                  !.log = <<LogEntry("info", "File deleted successfully",
                                                     FALSE)>>,
                                  !.message = "File successfully deleted",
                                  !.filename = v.filename,
                                  !.size = statSize(loc)]
            /\ UNCHANGED <<authToken, rootExists, nextUuid, everStored>>

\* router.use('/files', <existence check>, express.static(root)); a request no
\* middleware answers ends in Express's own 404
Download(hdr, name) ==
    LET path == <<"/">> \o PercentEncode(name)
        req == [NoRequest EXCEPT !.route = "download", !.hdr = hdr, !.name = name,
                                 !.pre = files, !.preOutside = outside,
                                 !.wasDeleted = (name \in deleted),
                                 !.wasEverStored = (name \in everStored)]
        s == serveStatic(PercentDecode(path))
    IN  /\ last' =
             IF ~existsSync(pathJoin(path))
             THEN Logged(Answer(req, Reply(404, "File not found",
                                           "The requested file does not exist",
                                           "filesRoute")),
                         <<LogEntry("warn", "File not found in static route", FALSE)>>)
             ELSE IF s.found
             THEN [req EXCEPT !.status = 200, !.writer = "static", !.data = s.data,
                              !.length = s.length, !.disposition = s.disposition]
             ELSE [req EXCEPT !.status = 404, !.writer = "finalhandler"]
        /\ UNCHANGED <<authToken, rootExists, files, outside, nextUuid, live, deleted,
                       everStored>>

\* every header value with a few requests, and every request with the header
\* value that authenticate lets pass
Next ==
    \/ \E hdr \in Headers, parts \in SomeBodies :
          Upload(hdr, parts) /\ UNCHANGED inflight
    \/ \E parts \in Bodies :
          Upload(Str(ExpectedHeader), parts) /\ UNCHANGED inflight
    \/ \E hdr \in Headers : \E q \in SomeQueries(hdr) :
          Delete(hdr, q, "none") /\ UNCHANGED inflight
    \/ \E q \in Queries, fault \in Faults :
          Delete(Str(ExpectedHeader), q, fault) /\ UNCHANGED inflight
    \/ \E hdr \in {Undefined, Str(ExpectedHeader)}, name \in NamesAsked :
          Download(hdr, name) /\ UNCHANGED inflight

Spec == Init /\ [][Next]_vars

----------------------------------------------------------------------------
(* Requests of several clients under way at the same time *)

\* what a stage did with a request: wrote: it wrote a response
\* (res.status(..).json(..), res.json(..), the piped file); next: it passed
\* control on (next() or next(err))
Stage(name, wrote, next) == [name |-> name, wrote |-> wrote, next |-> next]

\* a stage that is given as its verdict: it wrote a response when its reply has a
\* status, and passed control on when it let the request pass
StageOf(name, r) == Stage(name, r.reply.status # 0, r.pass)

\* the stages run one after the other, each when the one before passed control
\* on; a stage that neither writes nor passes on leaves the request hanging
RECURSIVE RunStages(_, _)
RunStages(stages, trace) ==
    CHOOSE r \in
        {IF ss = <<>> THEN t
         ELSE LET st == Head(ss)
                  u == [ran |-> Append(t.ran, st.name),
                        responses |-> t.responses + (IF st.wrote THEN 1 ELSE 0),
                        late |-> t.late \/ t.responses > 0,
                        hung |-> ~st.wrote /\ ~st.next]
              IN  IF st.next THEN RunStages(Tail(ss), u) ELSE u :
            <<ss, t>> \in {<<stages, trace>>}} : TRUE

\* the request of a client after the stages ran for it
Ran(req, stages) ==
    CHOOSE r \in
        {[req EXCEPT !.ran = t.ran, !.responses = t.responses, !.late = t.late,
                     !.pc = IF t.hung THEN "hung" ELSE @] :
            t \in {RunStages(stages, [ran |-> req.ran, responses |-> req.responses,
                                      late |-> req.late, hung |-> FALSE])}} : TRUE

\* router.delete('/delete', authenticate, validateFilename, handler): every branch
\* of the handler, its catch included, writes a response
DeleteStages(hdr, q) ==
    <<StageOf("authenticate", authenticate(hdr)),
      StageOf("validateFilename", validateFilename(q)),
      Stage("deleteHandler", TRUE, FALSE)>>

\* router.post('/upload', ...) behind authenticate: upload.single('file') passes
\* control on, with next(err) to errorHandler or with next() to validateFileUpload
\* and the handler
UploadStages(m) ==
    <<Stage("upload.single", FALSE, TRUE)>>
    \o (IF m.err.raised
        THEN <<Stage("errorHandler", errorHandler(m.err).status # 0, FALSE)>>
        ELSE <<StageOf("validateFileUpload", validateFileUpload(m)),
               Stage("uploadHandler", TRUE, FALSE)>>)

\* uploads of clients that have not stored their file yet
PendingUploads ==
    Cardinality({c \in Clients : /\ inflight[c].route = "upload"
                                 /\ inflight[c].pc \in {"sent", "parsing"}})

\* the uploads clients send: header and body
ClientUploads ==
    {[hdr |-> Str(ExpectedHeader), parts |-> b] :
        b \in SomeBodies \cup
              {<<FilePart("file", <<"p", ".", "J">>, "application/x-msdownload",
                          [data |-> "d1", size |-> 3])>>}}
    \cup {[hdr |-> Undefined, parts |-> b] : b \in SomeBodies}

\* the names the clients ask to delete: names uploads returned, and one made up
ClientQueries ==
    {[kind |-> "string", value |-> s] : s \in everStored \cup {<<"n">>}}

\* client c sends DELETE /delete?filename=<q> with the header that passes
SendDelete(c, q) ==
    /\ inflight[c].pc = "idle"
    /\ inflight' =
          [inflight EXCEPT ![c] =
              [NotSent EXCEPT
                 !.pc = "sent", !.route = "delete", !.query = q,
                 !.hdr = Str(ExpectedHeader),
                 !.storedWhenSent = (q.value \in DOMAIN files),
                 !.peers = {d \in Clients \ {c} : /\ inflight[d].pc = "sent"
                                                  /\ inflight[d].route = "delete"
                                                  /\ inflight[d].query = q}]]
    /\ UNCHANGED <<authToken, rootExists, files, outside, nextUuid, live, deleted,
                   everStored, last>>

\* the server takes up the request of client c: authenticate, validateFilename and
\* the handler call each other synchronously, and the handler uses the
\* synchronous fs calls, so the request is served to its response in one turn of
\* the event loop
ServeDelete(c) ==
    /\ inflight[c].pc = "sent"
    /\ inflight[c].route = "delete"
    /\ Delete(Str(ExpectedHeader), inflight[c].query, "none")
    /\ inflight' =
          [d \in Clients |->
              IF d = c
              THEN Ran([inflight[c] EXCEPT !.pc = "answered",
                                           !.status = last'.status,
                                           !.writer = last'.writer,
                                           !.json = last'.json,
                                           !.keys = last'.keys],
                       DeleteStages(Str(ExpectedHeader), inflight[c].query))
              ELSE IF /\ inflight[d].route = "download"
                      /\ inflight[d].pc \in {"statting", "opening", "streaming"}
                      /\ last'.status = 200
                      /\ inflight[d].query.value = last'.name
              THEN [inflight[d] EXCEPT !.raced = TRUE]
              ELSE inflight[d]]

\* client c sends GET /files/<name>, without Authorization header
SendDownload(c, name) ==
    /\ inflight[c].pc = "idle"
    /\ inflight' =
          [inflight EXCEPT ![c] =
              [NotSent EXCEPT
                 !.pc = "sent", !.route = "download",
                 !.query = [kind |-> "string", value |-> name],
                 !.storedWhenSent = (name \in DOMAIN files)]]
    /\ UNCHANGED <<authToken, rootExists, files, outside, nextUuid, live, deleted,
                   everStored, last>>

\* the server takes up the download of client c: the route's middleware makes its
\* existence check and, when the path exists, calls next(); express.static starts
\* fs.stat for the file and returns to the event loop
DownloadCheck(c) ==
    LET name == inflight[c].query.value
        path == <<"/">> \o PercentEncode(name)
        r == Reply(404, "File not found", "The requested file does not exist",
                   "filesRoute")
    IN  /\ inflight[c].pc = "sent"
        /\ inflight[c].route = "download"
        /\ inflight' =
              [inflight EXCEPT ![c] =
                  IF ~existsSync(pathJoin(path))
                  THEN Ran([@ EXCEPT !.pc = "answered", !.status = r.status,
                                     !.writer = r.writer, !.json = TRUE,
                                     !.keys = {"error", "message"}],
                           <<Stage("filesRoute", TRUE, FALSE)>>)
                  ELSE Ran([@ EXCEPT !.pc = "statting",
                                     !.expected = IF name \in DOMAIN files
                                                  THEN files[name]
                                                  ELSE @],
                           <<Stage("filesRoute", FALSE, TRUE)>>)]
        /\ UNCHANGED <<authToken, rootExists, files, outside, nextUuid, live,
                       deleted, everStored, last>>

\* fs.stat has completed.  With no file at the path express.static calls next()
\* without an error (fallthrough), no route is left and the framework's default
\* handler answers 404 with its HTML body; with a file it sets Content-Length
\* from the stat and starts to open the file
DownloadStat(c) ==
    LET name == inflight[c].query.value
        s == serveStatic(PercentDecode(<<"/">> \o PercentEncode(name)))
    IN  /\ inflight[c].pc = "statting"
        /\ inflight' =
              [inflight EXCEPT ![c] =
                  IF ~s.found
                  THEN Ran([@ EXCEPT !.pc = "answered", !.status = 404,
                                     !.writer = "finalhandler", !.json = FALSE],
                           <<Stage("static", FALSE, TRUE),
                             Stage("finalhandler", TRUE, FALSE)>>)
                  ELSE [@ EXCEPT !.pc = "opening", !.length = s.length]]
        /\ UNCHANGED <<authToken, rootExists, files, outside, nextUuid, live,
                       deleted, everStored, last>>

\* the open of the read stream has completed.  With no file left at the path the
\* stream's ENOENT is handed to next(err), as the file had been found by the stat,
\* and errorHandler answers; otherwise the stream holds the open file
DownloadOpen(c) ==
    LET name == inflight[c].query.value
        s == serveStatic(PercentDecode(<<"/">> \o PercentEncode(name)))
        r == errorHandler(Err(FALSE, "ENOENT", "Error", ""))
    IN  /\ inflight[c].pc = "opening"
        /\ inflight' =
              [inflight EXCEPT ![c] =
                  IF ~s.found
                  THEN Ran([@ EXCEPT !.pc = "answered", !.status = r.status,
                                     !.writer = r.writer, !.json = TRUE,
                                     !.keys = {"error", "message"}, !.length = 0],
                           <<Stage("static", FALSE, TRUE),
                             Stage("errorHandler", r.status # 0, FALSE)>>)
                  ELSE [@ EXCEPT !.pc = "streaming", !.data = s.data]]
        /\ UNCHANGED <<authToken, rootExists, files, outside, nextUuid, live,
                       deleted, everStored, last>>

\* the read stream is piped to the response to its end: an unlink of the path
\* takes the directory entry away and leaves the open file readable
DownloadStream(c) ==
    /\ inflight[c].pc = "streaming"
    /\ inflight' =
          [inflight EXCEPT ![c] =
              Ran([@ EXCEPT !.pc = "answered", !.status = 200, !.writer = "static"],
                  <<Stage("static", TRUE, FALSE)>>)]
    /\ UNCHANGED <<authToken, rootExists, files, outside, nextUuid, live, deleted,
                   everStored, last>>

\* client c sends POST /upload with header u.hdr and the file parts u.parts
SendUpload(c, u) ==
    /\ inflight[c].pc = "idle"
    /\ nextUuid + PendingUploads < MaxUploads
    /\ inflight' =
          [inflight EXCEPT ![c] =
              [NotSent EXCEPT !.pc = "sent", !.route = "upload", !.hdr = u.hdr,
                              !.parts = u.parts]]
    /\ UNCHANGED <<authToken, rootExists, files, outside, nextUuid, live, deleted,
                   everStored, last>>

\* the server takes up the upload of client c: authenticate answers, or calls
\* next() and upload.single('file') starts to read the body
UploadAuthenticate(c) ==
    LET a == authenticate(inflight[c].hdr)
    IN  /\ inflight[c].pc = "sent"
        /\ inflight[c].route = "upload"
        /\ inflight' =
              [inflight EXCEPT ![c] =
                  Ran([@ EXCEPT !.pc = IF a.pass THEN "parsing" ELSE "answered",
                                !.status = a.reply.status,
                                !.writer = a.reply.writer,
                                !.json = ~a.pass,
                                !.keys = IF a.pass THEN {} ELSE {"error", "message"}],
                      <<StageOf("authenticate", a)>>)]
        /\ UNCHANGED <<authToken, rootExists, files, outside, nextUuid, live,
                       deleted, everStored, last>>

\* the body has been read: upload.single('file') passes control on and the
\* stages behind it run to the response
UploadBody(c) ==
    /\ inflight[c].pc = "parsing"
    /\ Upload(inflight[c].hdr, inflight[c].parts)
    /\ inflight' =
          [inflight EXCEPT ![c] =
              Ran([@ EXCEPT !.pc = "answered", !.status = last'.status,
                            !.writer = last'.writer, !.json = last'.json,
                            !.keys = last'.keys],
                  UploadStages(uploadSingle(inflight[c].parts, nextUuid + 1)))]

NextC ==
    \/ \E parts \in SomeBodies :
          /\ nextUuid + PendingUploads < MaxUploads
          /\ Upload(Str(ExpectedHeader), parts)
          /\ UNCHANGED inflight
    \/ \E c \in Clients, u \in ClientUploads : SendUpload(c, u)
    \/ \E c \in Clients : UploadAuthenticate(c)
    \/ \E c \in Clients : UploadBody(c)
    \/ \E c \in Clients,
          q \in ClientQueries \cup {[kind |-> "absent", value |-> <<>>]} :
          SendDelete(c, q)
    \/ \E c \in Clients : ServeDelete(c)
    \/ \E c \in Clients, q \in ClientQueries : SendDownload(c, q.value)
    \/ \E c \in Clients : DownloadCheck(c)
    \/ \E c \in Clients : DownloadStat(c)
    \/ \E c \in Clients : DownloadOpen(c)
    \/ \E c \in Clients : DownloadStream(c)

SpecC == Init /\ [][NextC]_vars

\* what the server does for the request of client c
ServerStep(c) ==
    \/ UploadAuthenticate(c)
    \/ UploadBody(c)
    \/ ServeDelete(c)
    \/ DownloadCheck(c)
    \/ DownloadStat(c)
    \/ DownloadOpen(c)
    \/ DownloadStream(c)

\* the event loop runs every callback that is due, and a client that started to
\* send a body sends it to its end
SpecL == SpecC /\ \A c \in Clients : WF_vars(ServerStep(c))

----------------------------------------------------------------------------
(* Properties *)

\* the header carries the configured secret: a secret is configured and the header
\* is 'Bearer ' followed by it
CredentialValid(hdr) ==
    hdr.present /\ authToken.present /\ hdr.value = BearerPrefix \o authToken.value

Rejected401(kind) ==
    /\ last.status = 401
    /\ last.error = kind
    /\ ~last.authPassed
    /\ files = last.pre

\* C1: an upload without an Authorization header is answered 401 "Missing
\* authorization", one whose header is present but is not 'Bearer <secret>' is
\* answered 401 "Invalid token", and neither changes the stored files.
C1_UnauthenticatedUploadRejected ==
    last.route = "upload" =>
        /\ ~last.hdr.present => Rejected401("Missing authorization")
        /\ (last.hdr.present /\ ~CredentialValid(last.hdr)) =>
               Rejected401("Invalid token")

\* C2: with no secret configured every upload and every delete is answered 401,
\* whatever its Authorization header, and the stored files stay as they were.
C2_NoSecretRejectsAll ==
    (~authToken.present /\ last.route \in {"upload", "delete"}) =>
        (last.status = 401 /\ ~last.authPassed /\ files = last.pre)

\* C3: authenticate calls the next stage exactly when the header is 'Bearer '
\* followed by the configured secret, answers 401 otherwise, and a download never
\* passes through it.
C3_AuthenticatorIff ==
    /\ last.route \in {"upload", "delete"} =>
          /\ last.authPassed <=> CredentialValid(last.hdr)
          /\ ~last.authPassed => (last.status = 401 /\ last.writer = "authenticate")
    /\ last.route = "download" => (~last.authPassed /\ last.writer # "authenticate")

\* C4: an authenticated upload whose file part (field 'file') declares a MIME type
\* outside the allow-list is answered 400 "Unsupported file type" and adds no file.
C4_UnsupportedTypeIs400 ==
    (/\ last.route = "upload"
     /\ last.authPassed
     /\ last.parts # <<>>
     /\ last.parts[1].fieldname = "file"
     /\ last.parts[1].mimetype \notin allowedMimeTypes) =>
        (last.status = 400 /\ last.error = "Unsupported file type" /\ files = last.pre)

\* a DELETE that reached the route's handler
DeleteRan == last.route = "delete" /\ last.handlerRan

\* after a DELETE answered 200 for a stored name, the name is not stored and every
\* later GET and DELETE of it is answered 404, until an upload stores under it again
GoneStaysGone ==
    /\ \A x \in deleted : x \notin DOMAIN files
    /\ (last.route = "download" /\ last.wasDeleted) => last.status = 404
    /\ (DeleteRan /\ last.wasDeleted) => last.status = 404

\* C5: after a DELETE answered 200 for a stored name the name is gone: every later
\* GET and DELETE of it is answered 404, until an upload stores under it again; and
\* a DELETE of a name that was never stored is answered 404.
C5_DeletedIsGone_NeverStored404 ==
    /\ GoneStaysGone
    /\ (DeleteRan /\ ~last.wasEverStored) => last.status = 404

\* C6: a GET, sent without Authorization header, of the name an upload was answered
\* 200 with, with no delete of it in between, is answered 200 with the uploaded
\* bytes as body and their number as Content-Length.
C6_RoundTrip ==
    (/\ last.route = "download"
     /\ ~last.hdr.present
     /\ last.name \in DOMAIN live) =>
        /\ last.status = 200
        /\ last.data = live[last.name].data
        /\ last.length = live[last.name].size

\* e is the extension of the name s: the end of s from its last dot on, as it is
\* written in s; empty exactly when s has no dot after its first character
IsExtensionOf(e, s) ==
    /\ Len(e) <= Len(s)
    /\ e = SubSeq(s, Len(s) - Len(e) + 1, Len(s))
    /\ e # <<>> => (e[1] = "." /\ \A i \in 2..Len(e) : e[i] # ".")
    /\ e = <<>> <=> ~(\E i \in 2..Len(s) : s[i] = ".")

\* id starts no name a file was stored under before the name `but`
FreshIdentifier(id, but) ==
    /\ id # <<>>
    /\ \A x \in everStored \ {but} :
          Len(x) < Len(id) \/ SubSeq(x, 1, Len(id)) # id

\* C7: a 200 upload response names a fresh identifier followed by the extension of
\* the original name, filePath is '<baseUrl>/files/<filename>', originalname, size
\* and mimetype are those of the uploaded part, and the file is stored under
\* exactly that filename.
C7_UploadResponse ==
    (last.route = "upload" /\ last.status = 200) =>
        LET p == last.parts[1]
            n == last.filename
        IN  /\ \E k \in 1..Len(n) :
                  /\ FreshIdentifier(SubSeq(n, 1, k), n)
                  /\ IsExtensionOf(SubSeq(n, k + 1, Len(n)), p.originalname)
            /\ last.filePath = BASE_URL \o <<"/", "f", "i", "l", "e", "s", "/">> \o n
            /\ last.originalname = p.originalname
            /\ last.size = p.size
            /\ last.mimetype = p.mimetype
            /\ n \notin DOMAIN last.pre
            /\ files = Put(last.pre, n, [data |-> p.data, size |-> p.size])

\* a 200 upload of a file whose name has an upper-case extension
C7_Witness ==
    /\ last.route = "upload"
    /\ last.status = 200
    /\ last.originalname = <<"p", ".", "J">>
    /\ last.filename = <<"u", "1", ".", "J">>

\* the request was stopped by a validator before any storage operation
StoppedAs(kind) ==
    /\ last.status = 400
    /\ last.error = kind
    /\ ~last.handlerRan
    /\ files = last.pre

HandedTrimmed ==
    (/\ last.query.kind = "string"
     /\ Trim(last.query.value) # <<>>) =>
        (last.handlerRan /\ last.name = Trim(last.query.value))

\* C9 as stated: an authenticated DELETE without filename is answered 400 "Missing
\* required parameter", one whose filename is empty after trimming (the empty string
\* included) 400 "Invalid parameter", no storage operation runs for either, and any
\* other filename reaches the handler trimmed.
C9_FilenameValidation ==
    (last.route = "delete" /\ last.authPassed) =>
        /\ last.query.kind = "absent" => StoppedAs("Missing required parameter")
        /\ (last.query.kind = "string" /\ Trim(last.query.value) = <<>>) =>
               StoppedAs("Invalid parameter")
        /\ HandedTrimmed

\* C9 as amended: the empty string is answered like an absent filename, 400 "Missing
\* required parameter"; a non-empty filename of white space only is answered 400
\* "Invalid parameter".
C9_FilenameValidation_EmptyIsMissing ==
    (last.route = "delete" /\ last.authPassed) =>
        /\ (\/ last.query.kind = "absent"
            \/ (last.query.kind = "string" /\ last.query.value = <<>>)) =>
               StoppedAs("Missing required parameter")
        /\ (/\ last.query.kind = "string"
            /\ last.query.value # <<>>
            /\ Trim(last.query.value) = <<>>) =>
               StoppedAs("Invalid parameter")
        /\ HandedTrimmed

\* an authenticated DELETE with ?filename= (the empty string)
C9_Witness ==
    /\ last.route = "delete"
    /\ last.authPassed
    /\ last.query = [kind |-> "string", value |-> <<>>]
    /\ last.status = 400

Oversize(parts) == \E i \in 1..Len(parts) : parts[i].size > MaxFileSize

\* the first file part is one upload.single('file') accepts
FirstPartAccepted(parts) ==
    /\ parts # <<>>
    /\ parts[1].fieldname = "file"
    /\ parts[1].mimetype \in allowedMimeTypes

NoUploadDone ==
    /\ ~last.handlerRan
    /\ last.status # 200
    /\ files = last.pre

\* C10 as stated: an authenticated upload whose file exceeds 10 MiB is answered 413,
\* so is one with more than one file part, and the handler runs for neither.
C10_LimitsAre413 ==
    (last.route = "upload" /\ last.authPassed) =>
        /\ Oversize(last.parts) => (last.status = 413 /\ NoUploadDone)
        /\ Len(last.parts) > 1 => (last.status = 413 /\ NoUploadDone)

\* C10 as amended: provided the first file part is under field 'file' with an
\* allow-listed type, an upload whose file exceeds 10 MiB is answered 413 "File too
\* large" and one with more than one file part whose first file is within the limit
\* 413 "Too many files"; no upload with an oversize file or more than one file part
\* runs the handler or is answered 200.
C10_LimitsAre413_AcceptedPart ==
    (last.route = "upload" /\ last.authPassed) =>
        /\ (FirstPartAccepted(last.parts) /\ last.parts[1].size > MaxFileSize) =>
               (last.status = 413 /\ last.error = "File too large")
        /\ (/\ FirstPartAccepted(last.parts)
            /\ last.parts[1].size <= MaxFileSize
            /\ Len(last.parts) > 1) =>
               (last.status = 413 /\ last.error = "Too many files")
        /\ (Oversize(last.parts) \/ Len(last.parts) > 1) => NoUploadDone

\* an authenticated upload of one accepted file of 10 MiB + 1 byte, answered 413
C10_Witness ==
    /\ last.route = "upload"
    /\ last.authPassed
    /\ Len(last.parts) = 1
    /\ last.parts[1].size = MaxFileSize + 1
    /\ last.status = 413

\* C11: every 200 response of GET /files/<name> carries a Content-Disposition
\* header 'attachment; filename=<name>' naming the name that was asked for.
C11_DownloadDisposition ==
    (last.route = "download" /\ last.status = 200) =>
        /\ last.disposition.present
        /\ last.disposition.value =
              <<"a", "t", "t", "a", "c", "h", "m", "e", "n", "t", ";", " ",
                "f", "i", "l", "e", "n", "a", "m", "e", "=">> \o last.name

\* upload.single('file') raised an error for the body: it hands it to next(err)
MulterRaised(parts) ==
    /\ parts # <<>>
    /\ \/ ~FirstPartAccepted(parts)
       \/ parts[1].size > MaxFileSize
       \/ Len(parts) > 1

FailureEntries(log) ==
    Cardinality({i \in 1..Len(log) : log[i].level \in {"warn", "error"}})

\* C13: for every request that ends in a failure response exactly one failure log
\* entry is written, whichever stage raised the failure.
C13_OneFailureEntry ==
    last.status >= 400 => FailureEntries(last.log) = 1

\* C14: every error response body of the three routes is a JSON object with
\* exactly the two fields error and message.
C14_ErrorBodyShape ==
    last.status >= 400 => (last.json /\ last.keys = {"error", "message"})

\* the request left the files under and next to the storage root as they were
StorageUnchanged == files = last.pre /\ outside = last.preOutside

\* C15: DELETE /delete runs Authenticator, Filename Validator and storage delete
\* in this order, each only if the one before passed: a request without
\* Authorization header and without filename is answered 401, not 400; a request
\* the Authenticator or the validator refused never reaches the existence check
\* or the remove and leaves storage unchanged.
C15_DeleteStageOrder ==
    last.route = "delete" =>
        /\ (~last.hdr.present /\ last.query.kind = "absent") => last.status = 401
        /\ ~last.authPassed =>
               /\ last.status = 401
               /\ ~last.validated /\ ~last.handlerRan
               /\ StorageUnchanged
        /\ (last.authPassed /\ ~last.validated) =>
               /\ last.status = 400
               /\ ~last.handlerRan
               /\ StorageUnchanged
        /\ last.handlerRan => (last.authPassed /\ last.validated)
        /\ last.validated => last.authPassed
        /\ last.authPassed <=> authenticate(last.hdr).pass
        /\ last.validated <=> (last.authPassed /\ validateFilename(last.query).pass)

\* a DELETE with neither Authorization header nor filename, answered 401
C15_Witness ==
    /\ last.route = "delete"
    /\ ~last.hdr.present
    /\ last.query.kind = "absent"
    /\ last.status = 401
    /\ last.writer = "authenticate"

\* C16: when the OS denies the removal (EACCES) during an authenticated, validated
\* DELETE of an existing name, the answer is 403 "Permission denied" and the file
\* is still there; any other failure of the stat or the remove is answered 500;
\* 200 is answered only when the file has been removed.
C16_DeleteFailures ==
    DeleteRan =>
        /\ last.fault = "EACCES" =>
               /\ last.status = 403 /\ last.error = "Permission denied"
               /\ IsRegularFile(pathJoin(last.name))
               /\ StorageUnchanged
        /\ last.fault \notin {"none", "EACCES"} =>
               /\ last.status = 500
               /\ IsRegularFile(pathJoin(last.name))
               /\ StorageUnchanged
        /\ last.status = 200 =>
               (last.fault = "none" /\ ~existsSync(pathJoin(last.name)))
        /\ last.status # 200 => StorageUnchanged

\* a DELETE of a stored file whose unlink failed with an error other than EACCES
C16_Witness ==
    /\ DeleteRan
    /\ last.fault = "EIO"
    /\ last.name \in DOMAIN files
    /\ last.status = 500

\* C17: an authenticated upload without a file part is answered 400 "No file
\* uploaded", one whose file part is under a field name other than 'file' is
\* answered 400 "Invalid field name", and neither adds anything to storage.
C17_NoFileAndWrongField ==
    (last.route = "upload" /\ last.authPassed) =>
        /\ last.parts = <<>> =>
               /\ last.status = 400 /\ last.error = "No file uploaded"
               /\ ~last.handlerRan
               /\ StorageUnchanged
        /\ (last.parts # <<>> /\ last.parts[1].fieldname # "file") =>
               /\ last.status = 400 /\ last.error = "Invalid field name"
               /\ ~last.handlerRan
               /\ StorageUnchanged

\* an authenticated upload of an accepted type under field 'doc', answered 400
C17_Witness ==
    /\ last.route = "upload"
    /\ last.authPassed
    /\ Len(last.parts) = 1
    /\ last.parts[1].fieldname = "doc"
    /\ last.parts[1].mimetype \in allowedMimeTypes
    /\ last.status = 400
    /\ last.writer = "errorHandler"

\* C18: every path DELETE operates on is the storage root joined with a single
\* segment, so no DELETE of a filename the validator accepts removes a file
\* outside the storage root.
C18_NothingOutsideRemoved == DeleteRan => outside = last.preOutside

\* C19: a DELETE answered 200 for name X removes the file X and leaves every other
\* stored file, name and content, as it was; its response carries the trimmed
\* requested name and the size X had before the removal.  A DELETE answered 400,
\* 401 or 404 and every GET leave the stored files as they were.
C19_DeleteFrame ==
    /\ (last.route = "delete" /\ last.status = 200) =>
          /\ last.filename = Trim(last.query.value)
          /\ DOMAIN files \subseteq DOMAIN last.pre
          /\ \A x \in DOMAIN last.pre \ {last.filename} :
                x \in DOMAIN files /\ files[x] = last.pre[x]
          /\ last.filename \in DOMAIN last.pre =>
                /\ last.filename \notin DOMAIN files
                /\ last.size = last.pre[last.filename].size
    /\ (last.route = "delete" /\ last.status \in {400, 401, 404}) => files = last.pre
    /\ last.route = "download" => files = last.pre

\* a DELETE, its filename padded with blanks, answered 200 for one of two stored
\* files
C19_Witness ==
    /\ last.route = "delete"
    /\ last.status = 200
    /\ last.query.value # last.filename
    /\ last.filename \in DOMAIN last.pre
    /\ Cardinality(DOMAIN last.pre) = 2
    /\ Cardinality(DOMAIN files) = 1

\* a and b sent a DELETE for the same name, stored at that time, and the requests
\* were under way together
ConcurrentDeletes(a, b) ==
    /\ a # b
    /\ inflight[a].route = "delete" /\ inflight[b].route = "delete"
    /\ inflight[a].pc # "idle" /\ inflight[b].pc # "idle"
    /\ inflight[a].query = inflight[b].query
    /\ inflight[a].storedWhenSent /\ inflight[b].storedWhenSent
    /\ b \in inflight[a].peers

\* C20: of two authenticated DELETE requests for the same stored name that are
\* under way at the same time exactly one is answered 200 and the other 404, and
\* neither 500.
C20_ConcurrentDeletes ==
    \A a, b \in Clients :
        (/\ ConcurrentDeletes(a, b)
         /\ inflight[a].pc = "answered"
         /\ inflight[b].pc = "answered") =>
            {inflight[a].status, inflight[b].status} = {200, 404}

\* both requests answered, the one sent later first
C20_Witness ==
    /\ ConcurrentDeletes("b", "a")
    /\ inflight["a"].pc = "answered" /\ inflight["a"].status = 200
    /\ inflight["b"].pc = "answered" /\ inflight["b"].status = 404

\* C21: when a DELETE of X takes effect between the download route's existence
\* check for X and the static read of X, the GET is answered either 200 with the
\* complete bytes of X or 404 with the JSON body {error, message}.
C21_DownloadRacesDelete ==
    \A c \in Clients :
        (/\ inflight[c].route = "download"
         /\ inflight[c].raced
         /\ inflight[c].pc = "answered") =>
            \/ /\ inflight[c].status = 200
               /\ inflight[c].data = inflight[c].expected.data
               /\ inflight[c].length = inflight[c].expected.size
            \/ /\ inflight[c].status = 404
               /\ inflight[c].json
               /\ inflight[c].keys = {"error", "message"}

\* for each request under way at most one response has been written, none before
\* the request is answered, and no stage ran after the response
OneResponse ==
    \A c \in Clients :
        /\ inflight[c].responses = (IF inflight[c].pc = "answered" THEN 1 ELSE 0)
        /\ ~inflight[c].late
        /\ inflight[c].pc = "answered" =>
               (inflight[c].status # 0 /\ inflight[c].ran # <<>>)

\* C22: every request to the upload, delete or download route eventually
\* receives exactly one response: each stage either writes the response or
\* passes control on, never both and never neither, and no stage runs after a
\* response has been written.
C22_ExactlyOneResponse ==
    /\ []OneResponse
    /\ \A c \in Clients :
          (inflight[c].pc # "idle") ~> (inflight[c].pc = "answered")

\* an upload of a refused file type, answered by errorHandler behind
\* authenticate and upload.single
C22_Witness ==
    \E c \in Clients :
        /\ inflight[c].route = "upload"
        /\ inflight[c].pc = "answered"
        /\ inflight[c].ran = <<"authenticate", "upload.single", "errorHandler">>
        /\ inflight[c].responses = 1
        /\ inflight[c].status = 500

====
